---- MODULE Spec2Model ----
(***************************************************************************)
(* A model of thx/context.py: the staleness detector (pyproject_hash,      *)
(* needs_update), the per-context environment builder (prepare_virtualenv) *)
(* and the concurrent orchestrator (prepare_contexts, which merges the     *)
(* builders with aioitertools.asyncio.as_generated).                       *)
(***************************************************************************)
EXTENDS Integers, Sequences, FiniteSets, TLC

(***************************************************************************)
(* Bounds of the model.                                                    *)
(***************************************************************************)
\* the clock (file modification times) runs over 0..MaxClock
MaxClock == 1
\* prepare_contexts is called at most MaxRuns times on the same directories
MaxRuns == 2
\* the length of config.versions
MaxVersions == 2

(***************************************************************************)
(* Parsed TOML data.  A value is a scalar leaf or a table: a sequence of   *)
(* items (key, value) in document order, as tomli.loads returns a dict in  *)
(* insertion order.                                                        *)
(***************************************************************************)
Scalar(s) == [t |-> "scalar", v |-> s, items |-> <<>>]
Table(its) == [t |-> "table", v |-> "", items |-> its]
Item(k, val) == [k |-> k, val |-> val]
\* Python's None
None == [t |-> "none", v |-> "", items |-> <<>>]

\* isinstance(current, Mapping)
IsMapping(x) == x.t = "table"
\* part in current
HasKey(x, k) == \E i \in 1..Len(x.items) : x.items[i].k = k
\* current[part]
GetKey(x, k) == x.items[CHOOSE i \in 1..Len(x.items) : x.items[i].k = k].val

\* the keys a manifest may hold, in code point order (the order sort_keys uses)
SortedKeys ==
    << "build-system", "extras", "module", "name", "project", "requirements",
       "thx", "tool", "tool.thx.extras", "tool.thx.requirements", "version" >>
KeyRank(k) == CHOOSE i \in 1..Len(SortedKeys) : SortedKeys[i] = k

PROJECT_REBUILD_KEYS_Short ==
    << <<"build-system">>, <<"project">>, <<"tool", "thx", "requirements">> >>
PROJECT_REBUILD_KEYS ==
    << <<"build-system">>, <<"project">>, <<"tool", "thx", "requirements">>,
       <<"tool", "thx", "extras">> >>

\* the key as written in PROJECT_REBUILD_KEYS, of which the path is key.split(".")
Dotted(parts) ==
    IF Len(parts) = 1 THEN parts[1]
    ELSE IF parts[3] = "requirements" THEN "tool.thx.requirements"
    ELSE "tool.thx.extras"

\* lines 183-188: follow the parts of a key down from the document
RECURSIVE Walk(_, _)
Walk(current, parts) ==
    IF parts = <<>> THEN current
    ELSE IF ~IsMapping(current) \/ ~HasKey(current, Head(parts)) THEN None
    ELSE Walk(GetKey(current, Head(parts)), Tail(parts))

\* lines 180-190: the selected subset, in the order of PROJECT_REBUILD_KEYS
RECURSIVE SelectedFrom(_, _)
SelectedFrom(data, keys) ==
    IF keys = <<>> THEN <<>>
    ELSE LET current == Walk(data, Head(keys))
         IN  (IF current # None THEN <<Item(Dotted(Head(keys)), current)>> ELSE <<>>)
             \o SelectedFrom(data, Tail(keys))

Selected(data) == SelectedFrom(data, PROJECT_REBUILD_KEYS)

\* the items of a table ordered by key (sort_keys=True)
RECURSIVE SortItems(_)
SortItems(its) ==
    IF its = <<>> THEN <<>>
    ELSE LET m == CHOOSE i \in 1..Len(its) :
                    \A j \in 1..Len(its) : KeyRank(its[i].k) <= KeyRank(its[j].k)
             rest == [j \in 1..(Len(its) - 1) |-> IF j < m THEN its[j] ELSE its[j + 1]]
         IN  <<its[m]>> \o SortItems(rest)

\* line 192: sort_keys=True, the items of a mapping in the order of their keys
ItemOrder(its) == SortItems(its)

\* line 192: json.dumps(selected, sort_keys=True, separators=(",", ":")), the
\* text as the sequence of its tokens
RECURSIVE JsonDumps(_)
JsonDumps(x) ==
    IF x.t = "scalar" THEN <<x.v>>
    ELSE LET its == ItemOrder(x.items)
             RECURSIVE Members(_)
             Members(i) ==
                 IF i > Len(its) THEN <<>>
                 ELSE (IF i > 1 THEN <<",">> ELSE <<>>)
                      \o <<its[i].k, ":">> \o JsonDumps(its[i].val) \o Members(i + 1)
         IN  <<"{">> \o Members(1) \o <<"}">>

\* line 193: hashlib.sha256(text).hexdigest(), taken as injective: the digest
\* stands for the text it was computed from
Sha256(text) == <<"sha256">> \o text

\* the empty string
EmptyDigest == <<>>

(***************************************************************************)
(* The manifest file pyproject.toml: missing, not parseable (tomli raises  *)
(* TOMLDecodeError) or parseable to a table.                               *)
(***************************************************************************)
Missing == [kind |-> "missing", data |-> None]
Invalid == [kind |-> "invalid", data |-> None]
Toml(data) == [kind |-> "toml", data |-> data]

\* lines 168-193
pyproject_hash(m) ==
    IF m.kind = "missing" THEN EmptyDigest
    ELSE IF m.kind = "invalid" THEN EmptyDigest
    ELSE Sha256(JsonDumps(Table(Selected(m.data))))

(***************************************************************************)
(* The manifests the environment switches between while the builders run.  *)
(***************************************************************************)
DocA ==
    Table(<< Item("build-system", Scalar("a")),
             Item("project", Table(<<Item("name", Scalar("a"))>>)) >>)
\* DocA with another project table
DocB ==
    Table(<< Item("build-system", Scalar("a")),
             Item("project", Table(<<Item("name", Scalar("b"))>>)) >>)
EnvManifests == {Invalid, Toml(DocA), Toml(DocB)}

(***************************************************************************)
(* The state: the files, and one call of prepare_contexts.                 *)
(***************************************************************************)
\* the contexts: resolve_contexts gives none, one or both of them
Ctx == {1, 2}
ContextLists == {{}, {1}, {1, 2}}
\* the requirements files of the project root
ReqFiles == <<"requirements.txt", "requirements-dev.txt">>
ReqIx == 1..Len(ReqFiles)
Absent == [exists |-> FALSE, mtime |-> 0]
File(t) == [exists |-> TRUE, mtime |-> t]
NoHash == [exists |-> FALSE, text |-> <<>>]
HashFile(text) == [exists |-> TRUE, text |-> text]

Steps == {"create", "upgrade", "reqs", "project"}
Terminal == {"ready", "error", "raised", "cancelled"}

VARIABLES
    clock,      \* the time, which stamps every file written
    manifest,   \* pyproject.toml
    reqs,       \* the requirements files: ReqIx -> [exists, mtime]
    explicit,   \* config.requirements is set (else requirements*.txt is globbed)
    live,       \* context.live
    timestamp,  \* venv / thx.timestamp of each context: [exists, mtime]
    hashfile,   \* venv / thx.pyproject.hash of each context: [exists, text]
    contexts,   \* the contexts given to prepare_contexts
    runsLeft,   \* calls of prepare_contexts still to come
    status,     \* of the stream of prepare_contexts: idle, running, complete,
                \* raised (an exception left it), killed (the process died)
    pc,         \* where each builder (prepare_virtualenv generator) stands
    nu,         \* what needs_update returned to each builder in this call
    invoked,    \* the steps each builder started in this call
    ran,        \* the steps that succeeded for each builder in this call
    emitted,    \* the events each builder yielded in this call
    queue,      \* as_generated: the events put by the tailers, not yet yielded
    excq,       \* as_generated: the exceptions put by the tailers
    pending,    \* as_generated: the tasks not yet seen done
    stream,     \* the events prepare_contexts has yielded in this call
    written,    \* the markers each builder wrote in this call
    prevReady,  \* the builder of the context last ended with the ready event
    changed,    \* the manifest or a requirements file changed since the
                \* builder of the context last ended (end); it changed since
                \* the builder last found the environment up to date or wrote
                \* its timestamp marker, or a requirements file is dated after
                \* that marker (mark); while the builder stands between
                \* the return of its install commands and its end: a
                \* requirements file changed since they returned (run), when
                \* the manifest was as in used
    other, digests, \* a second manifest, and the digests of both (SpecHash)
    versions,   \* config.versions: the declared versions, in order
    python,     \* options.python: the version filter, or None
    options_live,   \* options.live
    binaries,   \* what shutil.which and `binary -V` give for each path
    PYTHON_VERSIONS,    \* the memo table of runtime_version
    detections, \* how often `binary -V` ran for each path in this process
    resolved,   \* what resolve_contexts last returned, and whether it was
                \* returned before the call of prepare_contexts (given)
    runtime     \* context.python_path and context.python_version

vars == << clock, manifest, reqs, explicit, live, timestamp, hashfile, contexts,
           runsLeft, status, pc, nu, invoked, ran, emitted, queue, excq, pending,
           stream, written, prevReady, changed, other, digests, versions, python,
           options_live, binaries, PYTHON_VERSIONS, detections, resolved, runtime >>
files == << clock, manifest, reqs, timestamp, hashfile >>
hashvars == << other, digests >>
config == << versions, python, options_live, binaries >>
lookups == << PYTHON_VERSIONS, detections, runtime >>
resolver == << config, resolved, lookups >>

(***************************************************************************)
(* Versions, the search path, runtime_version, find_runtime and            *)
(* resolve_contexts.  A version is its release tuple; None is the empty    *)
(* tuple.  A path is the directory it lies in (the version naming an       *)
(* environment directory, None for the search path) and a binary name.     *)
(***************************************************************************)
NoVersion == <<>>
\* the versions interpreters report, and the versions a config declares
FullVersions == {<<3, 9, 1>>, <<3, 9, 2>>, <<3, 10, 0>>}
Specifiers == {<<3, 9>>, <<3, 10>>, <<3, 9, 1>>}

\* utils.version_match for one candidate: major and minor equal those of the
\* target, and the rest of the target, if any, is a prefix of the candidate's
Matches(version, target) ==
    /\ Len(version) >= Len(target)
    /\ SubSeq(version, 1, Len(target)) = target
\* utils.version_match: the candidates that match, in their order
version_match(candidates, target) ==
    SelectSeq(candidates, LAMBDA v : Matches(v, target))

\* lines 49-50: the environment directory, named by the version
venv_path(version) == version
OnPath == NoVersion
PathOf(dir, name) == [dir |-> dir, name |-> name]
\* lines 94-95: the interpreter inside an environment directory
VenvPython(venv) == PathOf(venv, <<"python">>)
\* lines 102-106: the names probed on the search path, in order
binary_names(version) ==
    << <<"python", version[1], version[2]>>, <<"python", version[1]>>, <<"python">> >>
Names == UNION { {binary_names(v)[i] : i \in 1..3} : v \in Specifiers \cup FullVersions }
Paths == {PathOf(OnPath, n) : n \in Names} \cup {VenvPython(venv_path(v)) : v \in FullVersions}

\* a path that is not there; a binary whose version cannot be detected (the
\* command times out, cannot be spawned, or prints something else); a binary
\* that reports a version
NotFound == [found |-> FALSE, version |-> NoVersion]
Undetectable == [found |-> TRUE, version |-> NoVersion]
Reports(v) == [found |-> TRUE, version |-> v]
Binary == {NotFound, Undetectable} \cup {Reports(v) : v \in FullVersions}

Unset == [set |-> FALSE, version |-> NoVersion]
Cached(v) == [set |-> TRUE, version |-> v]

\* the memo table and the count of detections, threaded through the calls
Tables == [memo |-> PYTHON_VERSIONS, runs |-> detections]
Detect(t, binary) ==
    [memo |-> [t.memo EXCEPT ![binary] = Cached(binaries[binary].version)],
     runs |-> [t.runs EXCEPT ![binary] = @ + 1]]

\* runtime_version that runs the detection at every call
runtime_version_uncached(t, binary) ==
    [t |-> Detect(t, binary), value |-> binaries[binary].version]

\* lines 53-87: the cached version of the binary, detected at the first call
runtime_version(t, binary) ==
    IF ~t.memo[binary].set
    THEN [t |-> Detect(t, binary), value |-> binaries[binary].version]
    ELSE [t |-> t, value |-> t.memo[binary].version]

NoPath == PathOf(OnPath, <<>>)
Found(t, path, version) == [t |-> t, path |-> path, version |-> version]

\* lines 107-120: the first binary on the search path whose version matches
RECURSIVE Probe(_, _, _)
Probe(t, version, names) ==
    IF names = <<>> THEN Found(t, NoPath, NoVersion)
    ELSE LET binary_path == PathOf(OnPath, Head(names)) IN
         IF ~binaries[binary_path].found THEN Probe(t, version, Tail(names))
         ELSE LET r == runtime_version(t, binary_path) IN
              IF r.value = NoVersion THEN Probe(r.t, version, Tail(names))
              ELSE IF version_match(<<r.value>>, version) # <<>>
              THEN Found(r.t, binary_path, r.value)
              ELSE Probe(r.t, version, Tail(names))

\* lines 90-120: venv is None or an environment directory that exists
find_runtime(t, version, venv) ==
    IF venv # NoVersion /\ binaries[VenvPython(venv)].found
    THEN LET r == runtime_version(t, VenvPython(venv)) IN
         Found(r.t, VenvPython(venv), r.value)
    ELSE Probe(t, version, binary_names(version))

Context(version, path, venv, isLive) ==
    [python_version |-> version, python_path |-> path, venv |-> venv, live |-> isLive]

\* the contexts in the order of discovery, the last found first
RECURSIVE ResolveLastFirst(_, _)
ResolveLastFirst(t, declared) ==
    IF declared = <<>> THEN [t |-> t, contexts |-> <<>>]
    ELSE LET f == find_runtime(t, Head(declared), NoVersion)
             rest == ResolveLastFirst(f.t, Tail(declared))
         IN  IF f.path = NoPath \/ f.version = NoVersion THEN rest
             ELSE [t |-> rest.t,
                   contexts |-> rest.contexts
                                    \o <<Context(f.version, f.path, venv_path(f.version), FALSE)>>]

\* lines 130-139: one context for every declared version that is found
RECURSIVE Resolve(_, _)
Resolve(t, declared) ==
    IF declared = <<>> THEN [t |-> t, contexts |-> <<>>]
    ELSE LET f == find_runtime(t, Head(declared), NoVersion)
             rest == Resolve(f.t, Tail(declared))
         IN  IF f.path = NoPath \/ f.version = NoVersion THEN rest
             ELSE [t |-> rest.t,
                   contexts |-> <<Context(f.version, f.path, venv_path(f.version), FALSE)>>
                                    \o rest.contexts]

(***************************************************************************)
(* project_requirements and needs_update.                                  *)
(***************************************************************************)
\* lines 158-165: the configured paths, whether they exist or not, or else
\* the files the glob finds
project_requirements ==
    IF explicit THEN [i \in ReqIx |-> i]
    ELSE LET RECURSIVE Glob(_)
             Glob(i) == IF i > Len(ReqFiles) THEN <<>>
                        ELSE (IF reqs[i].exists THEN <<i>> ELSE <<>>) \o Glob(i + 1)
         IN  Glob(1)

Max(a, b) == IF a > b THEN a ELSE b

\* the loop keeping the time of the last path instead of the maximum
RECURSIVE NewestOfLast(_, _)
NewestOfLast(paths, newest) ==
    IF paths = <<>> THEN newest
    ELSE NewestOfLast(Tail(paths),
                      IF reqs[Head(paths)].exists
                      THEN reqs[Head(paths)].mtime ELSE newest)

\* lines 204-207: the newest modification time of the paths that exist
RECURSIVE Newest(_, _)
Newest(paths, newest) ==
    IF paths = <<>> THEN newest
    ELSE Newest(Tail(paths),
                IF reqs[Head(paths)].exists
                THEN Max(newest, reqs[Head(paths)].mtime) ELSE newest)

\* str.strip(): the text without its leading and trailing whitespace
Whitespace == {" ", "\n"}
RECURSIVE Strip(_)
Strip(text) ==
    IF text = <<>> THEN text
    ELSE IF Head(text) \in Whitespace THEN Strip(Tail(text))
    ELSE IF text[Len(text)] \in Whitespace THEN Strip(SubSeq(text, 1, Len(text) - 1))
    ELSE text

Returned(b) == [raises |-> FALSE, value |-> b]
Raised == [raises |-> TRUE, value |-> TRUE]

\* the body with >= for >: a requirements file as old as the marker is newer
NeedsUpdateBodyNotOlder(c, fails) ==
    IF fails THEN Raised
    ELSE IF timestamp[c].exists /\ hashfile[c].exists
    THEN LET base == timestamp[c].mtime
             newest == Newest(project_requirements, 0)
         IN  IF newest >= base THEN Returned(TRUE)
             ELSE Returned(Strip(hashfile[c].text) # pyproject_hash(manifest))
    ELSE Returned(TRUE)

\* lines 199-217, the body of the try; fails: an access to the file system
\* made by the check fails
NeedsUpdateBody(c, fails) ==
    IF fails THEN Raised
    ELSE IF timestamp[c].exists /\ hashfile[c].exists
    THEN LET base == timestamp[c].mtime
             newest == Newest(project_requirements, 0)
         IN  IF newest > base THEN Returned(TRUE)
             ELSE Returned(Strip(hashfile[c].text) # pyproject_hash(manifest))
    ELSE Returned(TRUE)

\* needs_update without its except clause
needs_update_uncaught(c, fails) == NeedsUpdateBody(c, fails)

\* lines 196-226: an exception is logged and answered with True
needs_update(c, fails) ==
    LET r == NeedsUpdateBody(c, fails)
    IN  IF r.raises THEN Returned(TRUE) ELSE r

\* the environment directories and interpreters of the contexts given to
\* prepare_contexts
ContextVenv == << <<3, 9, 1>>, <<3, 10, 0>> >>
ContextPath == << PathOf(OnPath, <<"python", 3, 9>>), PathOf(OnPath, <<"python", 3, 10>>) >>
Given(c, isLive) ==
    [path |-> IF isLive THEN NoPath ELSE ContextPath[c], version |-> ContextVenv[c]]

\* lines 262-266: find_runtime in the new environment fills in the context
FillIn(c) ==
    LET f == find_runtime(Tables, runtime[c].version, ContextVenv[c]) IN
    /\ PYTHON_VERSIONS' = f.t.memo
    /\ detections' = f.t.runs
    /\ runtime' = [runtime EXCEPT ![c] =
                    [path |-> IF f.path # NoPath THEN f.path ELSE @.path,
                     version |-> IF f.version # NoVersion THEN f.version ELSE @.version]]

\* lines 147-153: the contexts whose version the filter matches
Filtered(ctxs, target) ==
    IF target = NoVersion THEN ctxs
    ELSE LET context_versions == [i \in 1..Len(ctxs) |-> ctxs[i].python_version]
             matched_versions == version_match(context_versions, target)
         IN  SelectSeq(ctxs, LAMBDA context :
                \E i \in 1..Len(matched_versions) :
                    matched_versions[i] = context.python_version)

\* lines 123-155: resolve_contexts; running is platform.python_version()
resolve_contexts ==
    /\ IF options_live \/ versions = <<>>
       THEN /\ \E running \in FullVersions :
                resolved' = [called |-> TRUE, given |-> FALSE,
                             contexts |-> <<Context(running, NoPath, venv_path(running), TRUE)>>]
            /\ UNCHANGED << PYTHON_VERSIONS, detections >>
       ELSE LET r == Resolve(Tables, versions) IN
            /\ resolved' = [called |-> TRUE, given |-> FALSE,
                            contexts |-> Filtered(r.contexts, python)]
            /\ PYTHON_VERSIONS' = r.t.memo
            /\ detections' = r.t.runs
    /\ UNCHANGED << files, explicit, live, contexts, runsLeft, status, pc, nu,
                    invoked, ran, emitted, queue, excq, pending, stream, written,
                    prevReady, changed, hashvars, config, runtime >>

\* a process that has looked up no interpreter yet
NotResolved == [called |-> FALSE, contexts |-> <<>>, given |-> FALSE]
NoLookup ==
    /\ PYTHON_VERSIONS = [p \in Paths |-> Unset]
    /\ detections = [p \in Paths |-> 0]
    /\ resolved = NotResolved
    /\ runtime = [c \in Ctx |-> Given(c, live)]

\* every environment holds the interpreter its directory names, and nothing
\* is declared
InVenvs ==
    [p \in Paths |-> IF p.dir = OnPath THEN NotFound ELSE Reports(p.dir)]
NoConfig ==
    /\ versions = <<>>
    /\ python = NoVersion
    /\ options_live = FALSE
    /\ binaries = InVenvs

(***************************************************************************)
(* prepare_virtualenv: one asynchronous generator per context.  A builder  *)
(* runs from one suspension (an awaited external command) to the next; the *)
(* tailer of as_generated puts what it yields into the queue at once.  The *)
(* two marker writes are steps of their own: they are two system calls,    *)
(* and the process may fail or be stopped between them.                    *)
(***************************************************************************)
Event(c, kind) == <<c, kind>>
Unchanged == [end |-> FALSE, mark |-> FALSE, run |-> FALSE, used |-> Missing]
\* the install commands of the builder have returned and it has not ended
Installed(c) == pc[c] \in {"timestamp", "hash"}
\* the builder ends: what it installed from is no longer followed
Forget(c) == [changed EXCEPT ![c].run = FALSE, ![c].used = Missing]

\* the generator yields: the tailer puts the event into the queue
Yield(c, kinds) ==
    /\ emitted' = [emitted EXCEPT ![c] = @ \o kinds]
    /\ queue' = queue \o [i \in 1..Len(kinds) |-> Event(c, kinds[i])]

\* the command (or in-process creation) of a step starts
Invoke(c, steps) == invoked' = [invoked EXCEPT ![c] = @ \cup steps]
\* and returns with success
Succeed(c, step) == ran' = [ran EXCEPT ![c] = @ \cup {step}]

\* an exception other than CommandError leaves the generator: the tailer puts
\* it into the exception queue and ends
Throw(c) ==
    /\ pc' = [pc EXCEPT ![c] = "raised"]
    /\ excq' = Append(excq, c)
    /\ prevReady' = [prevReady EXCEPT ![c] = FALSE]

\* lines 303-304: CommandError is answered with the error event
Fail(c) ==
    /\ pc' = [pc EXCEPT ![c] = "error"]
    /\ Yield(c, <<"error">>)
    /\ prevReady' = [prevReady EXCEPT ![c] = FALSE]

\* line 301: the ready event, the last of the generator
Ready(c, before) ==
    /\ pc' = [pc EXCEPT ![c] = "ready"]
    /\ Yield(c, before \o <<"ready">>)
    /\ prevReady' = [prevReady EXCEPT ![c] = TRUE]

\* lines 233-260: the first step of the generator, up to the first awaited
\* command.  fails: an access of needs_update fails; ok: venv.create succeeds
Begin(c) ==
    /\ status = "running" /\ pc[c] = "start"
    /\ \E fails \in BOOLEAN, ok \in BOOLEAN :
        LET stale == needs_update(c, fails).value IN
        /\ nu' = [nu EXCEPT ![c] =
                    [called |-> TRUE, value |-> stale,
                     raises |-> needs_update(c, fails).raises, fails |-> fails,
                     same |-> prevReady[c] /\ ~changed[c].end,
                     sameMark |-> prevReady[c] /\ ~changed[c].mark]]
        /\ IF ~stale
           THEN /\ ok
                /\ Ready(c, <<>>)
                /\ changed' = [changed EXCEPT ![c] = Unchanged]
                /\ UNCHANGED << invoked, ran, excq, lookups >>
           ELSE /\ UNCHANGED changed
                /\ IF ~live
                   THEN /\ ok
                        /\ pc' = [pc EXCEPT ![c] = "create"]
                        /\ Yield(c, <<"creating virtualenv">>)
                        /\ Invoke(c, {"create"})
                        /\ UNCHANGED << ran, excq, prevReady, lookups >>
                   ELSE IF ok
                   THEN /\ pc' = [pc EXCEPT ![c] = "upgrade"]
                        /\ Yield(c, <<"creating virtualenv", "upgrading pip">>)
                        /\ Invoke(c, {"create", "upgrade"})
                        /\ Succeed(c, "create")
                        /\ FillIn(c)
                        /\ UNCHANGED << excq, prevReady >>
                   ELSE /\ Throw(c)
                        /\ Yield(c, <<"creating virtualenv">>)
                        /\ Invoke(c, {"create"})
                        /\ UNCHANGED << ran, lookups >>
    /\ UNCHANGED << files, explicit, live, contexts, runsLeft, status, pending,
                    stream, written, hashvars, config, resolved >>

\* lines 251-272: the command creating the environment returns; find_runtime
\* fills in the context; the pip upgrade starts
CreateReturns(c) ==
    /\ status = "running" /\ pc[c] = "create"
    /\ \E ok \in BOOLEAN :
        IF ok
        THEN /\ pc' = [pc EXCEPT ![c] = "upgrade"]
             /\ Yield(c, <<"upgrading pip">>)
             /\ Invoke(c, {"upgrade"})
             /\ Succeed(c, "create")
             /\ FillIn(c)
             /\ UNCHANGED prevReady
        ELSE /\ Fail(c)
             /\ UNCHANGED << invoked, ran, lookups >>
    /\ UNCHANGED << files, explicit, live, contexts, runsLeft, status, nu, excq,
                    pending, stream, written, changed, hashvars, config, resolved >>

\* lines 270-291: the pip upgrade returns; the requirements are installed
\* when project_requirements gives any, and else the project
UpgradeReturns(c) ==
    /\ status = "running" /\ pc[c] = "upgrade"
    /\ \E ok \in BOOLEAN :
        IF ok
        THEN /\ Succeed(c, "upgrade")
             /\ UNCHANGED prevReady
             /\ IF project_requirements # <<>>
                THEN /\ pc' = [pc EXCEPT ![c] = "reqs"]
                     /\ Yield(c, <<"installing requirements">>)
                     /\ Invoke(c, {"reqs"})
                ELSE /\ pc' = [pc EXCEPT ![c] = "project"]
                     /\ Yield(c, <<"installing project">>)
                     /\ Invoke(c, {"project"})
        ELSE /\ Fail(c)
             /\ UNCHANGED << invoked, ran >>
    /\ UNCHANGED << files, explicit, live, contexts, runsLeft, status, nu, excq,
                    pending, stream, written, changed, hashvars, resolver >>

\* the requirements install run without check: its failure is not noticed
ReqsReturnsUnchecked(c) ==
    /\ status = "running" /\ pc[c] = "reqs"
    /\ \E ok \in BOOLEAN :
        /\ pc' = [pc EXCEPT ![c] = "project"]
        /\ Yield(c, <<"installing project">>)
        /\ Invoke(c, {"project"})
        /\ IF ok THEN Succeed(c, "reqs") ELSE UNCHANGED ran
        /\ UNCHANGED prevReady
    /\ UNCHANGED << files, explicit, live, contexts, runsLeft, status, nu, excq,
                    pending, stream, written, changed, hashvars, resolver >>

\* lines 283-291: the requirements install returns; the project is installed
ReqsReturns(c) ==
    /\ status = "running" /\ pc[c] = "reqs"
    /\ \E ok \in BOOLEAN :
        IF ok
        THEN /\ pc' = [pc EXCEPT ![c] = "project"]
             /\ Yield(c, <<"installing project">>)
             /\ Invoke(c, {"project"})
             /\ Succeed(c, "reqs")
             /\ UNCHANGED prevReady
        ELSE /\ Fail(c)
             /\ UNCHANGED << invoked, ran >>
    /\ UNCHANGED << files, explicit, live, contexts, runsLeft, status, nu, excq,
                    pending, stream, written, changed, hashvars, resolver >>

\* line 291: the project install returns
ProjectReturns(c) ==
    /\ status = "running" /\ pc[c] = "project"
    /\ \E ok \in BOOLEAN :
        IF ok
        THEN /\ pc' = [pc EXCEPT ![c] = "timestamp"]
             /\ Succeed(c, "project")
             /\ changed' = [changed EXCEPT ![c].run = FALSE, ![c].used = manifest]
             /\ UNCHANGED << emitted, queue, prevReady >>
        ELSE /\ Fail(c)
             /\ UNCHANGED << ran, changed >>
    /\ UNCHANGED << files, explicit, live, contexts, runsLeft, status, nu, invoked,
                    excq, pending, stream, written, hashvars, resolver >>

\* lines 294-295: the timestamp marker is written (ok), or write_text raises
WriteTimestamp(c) ==
    /\ status = "running" /\ pc[c] = "timestamp"
    /\ \E ok \in BOOLEAN :
        IF ok
        THEN /\ timestamp' = [timestamp EXCEPT ![c] = File(clock)]
             /\ written' = [written EXCEPT ![c] = @ \cup {"timestamp"}]
             /\ changed' = [changed EXCEPT ![c].mark =
                    \E i \in ReqIx : reqs[i].exists /\ reqs[i].mtime > clock]
             /\ pc' = [pc EXCEPT ![c] = "hash"]
             /\ UNCHANGED << excq, prevReady >>
        ELSE /\ Throw(c)
             /\ changed' = Forget(c)
             /\ UNCHANGED << timestamp, written >>
    /\ UNCHANGED << clock, manifest, reqs, hashfile, explicit, live, contexts,
                    runsLeft, status, nu, invoked, ran, emitted, queue, pending,
                    stream, hashvars, resolver >>

\* lines 296-301: the hash marker is written and the ready event yielded
\* (ok), or reading the manifest or write_text raises
WriteHash(c) ==
    /\ status = "running" /\ pc[c] = "hash"
    /\ \E ok \in BOOLEAN :
        IF ok
        THEN /\ hashfile' = [hashfile EXCEPT ![c] = HashFile(pyproject_hash(manifest))]
             /\ written' = [written EXCEPT ![c] = @ \cup {"hash"}]
             /\ Ready(c, <<>>)
             /\ changed' = [Forget(c) EXCEPT ![c].end = FALSE]
             /\ UNCHANGED excq
        ELSE /\ Throw(c)
             /\ changed' = Forget(c)
             /\ UNCHANGED << hashfile, written, emitted, queue >>
    /\ UNCHANGED << clock, manifest, reqs, timestamp, explicit, live, contexts,
                    runsLeft, status, nu, invoked, ran, pending, stream, hashvars, resolver >>

(***************************************************************************)
(* prepare_contexts: as_generated starts one tailer task per generator and *)
(* loops while tasks are pending: it raises the first exception a tailer   *)
(* put, else yields the next queued event, else drops the tasks that are   *)
(* done and sleeps.  Leaving the loop by an exception cancels the tasks    *)
(* still running.                                                          *)
(***************************************************************************)
NotCalled == [called |-> FALSE, value |-> FALSE, raises |-> FALSE,
              fails |-> FALSE, same |-> FALSE, sameMark |-> FALSE]

Stop(how) ==
    /\ pc' = [c \in Ctx |-> IF c \in contexts /\ pc[c] \notin Terminal THEN how ELSE pc[c]]
    /\ prevReady' = [c \in Ctx |-> IF c \in contexts /\ pc[c] \notin Terminal
                                   THEN FALSE ELSE prevReady[c]]

\* line 311: the generators are made and as_generated makes their tasks
Start ==
    /\ status \in {"idle", "complete", "raised", "killed"}
    /\ runsLeft > 0
    /\ runsLeft' = runsLeft - 1
    /\ status' = IF contexts = {} THEN "complete" ELSE "running"
    /\ pc' = [c \in Ctx |-> IF c \in contexts THEN "start" ELSE "none"]
    /\ nu' = [c \in Ctx |-> NotCalled]
    /\ invoked' = [c \in Ctx |-> {}]
    /\ ran' = [c \in Ctx |-> {}]
    /\ written' = [c \in Ctx |-> {}]
    /\ emitted' = [c \in Ctx |-> <<>>]
    /\ queue' = <<>> /\ excq' = <<>> /\ stream' = <<>>
    /\ pending' = contexts
    /\ resolved' = [resolved EXCEPT !.given = resolved.called]
    /\ changed' = [c \in Ctx |-> [changed[c] EXCEPT !.run = FALSE, !.used = Missing]]
    /\ UNCHANGED << files, explicit, live, contexts, prevReady, hashvars,
                    config, lookups >>

\* as_generated: an exception is waiting; it is raised out of the stream, and
\* the tasks not yet done are cancelled
RaiseException ==
    /\ status = "running" /\ pending # {}
    /\ excq # <<>>
    /\ status' = "raised"
    /\ Stop("cancelled")
    /\ UNCHANGED << files, explicit, live, contexts, runsLeft, nu, invoked, ran,
                    emitted, queue, excq, pending, stream, written, changed,
                    hashvars, resolver >>

\* the queued event put last is yielded first
DeliverLast ==
    /\ status = "running" /\ pending # {}
    /\ excq = <<>> /\ queue # <<>>
    /\ stream' = Append(stream, queue[Len(queue)])
    /\ queue' = SubSeq(queue, 1, Len(queue) - 1)
    /\ UNCHANGED << files, explicit, live, contexts, runsLeft, status, pc, nu,
                    invoked, ran, emitted, excq, pending, written, prevReady,
                    changed, hashvars, resolver >>

\* as_generated and lines 312-313: the next queued event is yielded
Deliver ==
    /\ status = "running" /\ pending # {}
    /\ excq = <<>> /\ queue # <<>>
    /\ stream' = Append(stream, Head(queue))
    /\ queue' = Tail(queue)
    /\ UNCHANGED << files, explicit, live, contexts, runsLeft, status, pc, nu,
                    invoked, ran, emitted, excq, pending, written, prevReady,
                    changed, hashvars, resolver >>

\* as_generated: nothing is queued; the tasks that are done are dropped, and
\* with none pending the stream ends
Reap ==
    /\ status = "running" /\ pending # {}
    /\ excq = <<>> /\ queue = <<>>
    /\ \E c \in pending : pc[c] \in Terminal
    /\ pending' = {c \in pending : pc[c] \notin Terminal}
    /\ status' = IF pending' = {} THEN "complete" ELSE "running"
    /\ UNCHANGED << files, explicit, live, contexts, runsLeft, pc, nu, invoked,
                    ran, emitted, queue, excq, stream, written, prevReady,
                    changed, hashvars, resolver >>

\* the builders go on from their first command one after the other, in the
\* order of the list
BuilderInTurn(c) ==
    \/ Begin(c)
    \/ /\ \A b \in contexts : b < c => pc[b] \in Terminal
       /\ \/ CreateReturns(c)
          \/ UpgradeReturns(c)
          \/ ReqsReturns(c)
          \/ ProjectReturns(c)
          \/ WriteTimestamp(c)
          \/ WriteHash(c)

\* the tasks as_generated made run the generators, each at its own pace
Builder(c) ==
    \/ Begin(c)
    \/ CreateReturns(c)
    \/ UpgradeReturns(c)
    \/ ReqsReturns(c)
    \/ ProjectReturns(c)
    \/ WriteTimestamp(c)
    \/ WriteHash(c)

Next ==
    \/ Start
    \/ \E c \in Ctx : Builder(c)
    \/ RaiseException
    \/ Deliver
    \/ Reap

(***************************************************************************)
(* The environment of the program: time passes, the user edits the         *)
(* manifest and the requirements files, and stops the process.             *)
(***************************************************************************)
Tick ==
    /\ clock < MaxClock
    /\ clock' = clock + 1
    /\ UNCHANGED << manifest, reqs, timestamp, hashfile, explicit, live, contexts,
                    runsLeft, status, pc, nu, invoked, ran, emitted, queue, excq,
                    pending, stream, written, prevReady, changed, hashvars, resolver >>

TouchReq(i) ==
    /\ reqs' = [reqs EXCEPT ![i] = File(clock)]
    /\ changed' = [c \in Ctx |-> [changed[c] EXCEPT !.end = TRUE, !.mark = TRUE,
                                                     !.run = @ \/ Installed(c)]]
    /\ UNCHANGED << clock, manifest, timestamp, hashfile, explicit, live, contexts,
                    runsLeft, status, pc, nu, invoked, ran, emitted, queue, excq,
                    pending, stream, written, prevReady, hashvars, resolver >>

EditManifest(m) ==
    /\ m # manifest
    /\ manifest' = m
    /\ changed' = [c \in Ctx |-> [changed[c] EXCEPT !.end = TRUE, !.mark = TRUE]]
    /\ UNCHANGED << clock, reqs, timestamp, hashfile, explicit, live, contexts,
                    runsLeft, status, pc, nu, invoked, ran, emitted, queue, excq,
                    pending, stream, written, prevReady, hashvars, resolver >>

\* the process is stopped: what it held in memory is gone, the files stay
Kill ==
    /\ status = "running"
    /\ status' = "killed"
    /\ pc' = [c \in Ctx |-> "none"]
    /\ nu' = [c \in Ctx |-> NotCalled]
    /\ invoked' = [c \in Ctx |-> {}]
    /\ ran' = [c \in Ctx |-> {}]
    /\ written' = [c \in Ctx |-> {}]
    /\ emitted' = [c \in Ctx |-> <<>>]
    /\ queue' = <<>> /\ excq' = <<>> /\ stream' = <<>>
    /\ pending' = {}
    /\ prevReady' = [c \in Ctx |-> IF c \in contexts /\ pc[c] \notin Terminal
                                   THEN FALSE ELSE prevReady[c]]
    /\ PYTHON_VERSIONS' = [p \in Paths |-> Unset]
    /\ detections' = [p \in Paths |-> 0]
    /\ resolved' = NotResolved
    /\ runtime' = [c \in Ctx |-> Given(c, live)]
    /\ changed' = [c \in Ctx |-> [changed[c] EXCEPT !.run = FALSE, !.used = Missing]]
    /\ UNCHANGED << files, explicit, live, contexts, runsLeft, hashvars, config >>

NextVenv ==
    \/ Next
    \/ Tick
    \/ TouchReq(1)
    \/ \E m \in EnvManifests : EditManifest(m)
    \/ Kill

(***************************************************************************)
(* Initial states.                                                         *)
(***************************************************************************)
\* before the call of prepare_contexts
Idle ==
    /\ status = "idle"
    /\ pc = [c \in Ctx |-> "none"]
    /\ nu = [c \in Ctx |-> NotCalled]
    /\ invoked = [c \in Ctx |-> {}]
    /\ ran = [c \in Ctx |-> {}]
    /\ written = [c \in Ctx |-> {}]
    /\ emitted = [c \in Ctx |-> <<>>]
    /\ queue = <<>> /\ excq = <<>> /\ stream = <<>>
    /\ pending = {}
    /\ prevReady = [c \in Ctx |-> FALSE]
    /\ changed = [c \in Ctx |-> Unchanged]
    /\ other = Missing /\ digests = <<>>

NoCall ==
    /\ Idle
    /\ NoConfig
    /\ NoLookup

\* the markers of a context: none, or those of an earlier complete build
BuiltAt(t, m) == [ts |-> File(t), hash |-> HashFile(pyproject_hash(m))]
NotBuilt == [ts |-> Absent, hash |-> NoHash]

\* one call of prepare_contexts on any list of contexts: a live context
\* alone or the resolved ones, each environment directory new or built
\* before; the project has one requirements file or none
Init ==
    /\ clock = 0
    /\ manifest = Toml(DocA)
    /\ reqs \in [ReqIx -> {Absent, File(0)}]
    /\ reqs[2] = Absent
    /\ explicit = FALSE
    /\ live \in BOOLEAN
    /\ contexts \in ContextLists
    /\ live => contexts = {1}
    /\ \E built \in [Ctx -> {NotBuilt, BuiltAt(0, manifest)}] :
        /\ \A c \in Ctx \ contexts : built[c] = NotBuilt
        /\ timestamp = [c \in Ctx |-> built[c].ts]
        /\ hashfile = [c \in Ctx |-> built[c].hash]
    /\ runsLeft = 1
    /\ NoCall

Spec == Init /\ [][Next]_vars

\* one environment directory, built again and again while the files change
InitVenv ==
    /\ clock = 0
    /\ manifest \in EnvManifests
    /\ reqs \in [ReqIx -> {Absent, File(0), File(MaxClock)}]
    /\ reqs[2] = Absent
    /\ explicit \in BOOLEAN
    /\ live = FALSE
    /\ contexts = {1}
    /\ timestamp = [c \in Ctx |-> Absent]
    /\ hashfile = [c \in Ctx |-> NoHash]
    /\ runsLeft = MaxRuns
    /\ NoCall

SpecVenv == InitVenv /\ [][NextVenv]_vars

\* one environment directory that an earlier process built completely, from
\* the manifest that is there now or from another, and built again and again
InitKept ==
    /\ clock = 0
    /\ manifest \in EnvManifests
    /\ reqs \in [ReqIx -> {Absent, File(0)}]
    /\ reqs[2] = Absent
    /\ explicit = FALSE
    /\ live = FALSE
    /\ contexts = {1}
    /\ \E m \in {Toml(DocA), Toml(DocB)} :
        /\ timestamp = [c \in Ctx |-> IF c = 1 THEN BuiltAt(0, m).ts ELSE Absent]
        /\ hashfile = [c \in Ctx |-> IF c = 1 THEN BuiltAt(0, m).hash ELSE NoHash]
    /\ runsLeft = MaxRuns
    /\ NoCall

SpecKept == InitKept /\ [][NextVenv]_vars

(***************************************************************************)
(* needs_update on every state of the files: the first step of a builder   *)
(* started on any markers, requirements files and manifest.                *)
(***************************************************************************)
AllManifests == EnvManifests \cup {Missing}
Times == 0..MaxClock
AnyFile == {Absent} \cup {File(t) : t \in Times}

InitCheck ==
    /\ clock = MaxClock
    /\ manifest \in AllManifests
    /\ reqs \in [ReqIx -> AnyFile]
    /\ explicit \in BOOLEAN
    /\ live \in BOOLEAN
    /\ contexts = {1}
    /\ \E ts \in AnyFile :
        timestamp = [c \in Ctx |-> IF c = 1 THEN ts ELSE Absent]
    /\ \E h \in {NoHash} \cup {HashFile(pyproject_hash(m)) : m \in AllManifests} :
        hashfile = [c \in Ctx |-> IF c = 1 THEN h ELSE NoHash]
    /\ runsLeft = 0
    /\ status = "running"
    /\ pc = [c \in Ctx |-> IF c = 1 THEN "start" ELSE "none"]
    /\ pending = {1}
    /\ nu = [c \in Ctx |-> NotCalled]
    /\ invoked = [c \in Ctx |-> {}]
    /\ ran = [c \in Ctx |-> {}]
    /\ written = [c \in Ctx |-> {}]
    /\ emitted = [c \in Ctx |-> <<>>]
    /\ queue = <<>> /\ excq = <<>> /\ stream = <<>>
    /\ prevReady = [c \in Ctx |-> FALSE]
    /\ changed = [c \in Ctx |-> Unchanged]
    /\ other = Missing /\ digests = <<>>
    /\ NoConfig
    /\ NoLookup

NextCheck == \E c \in Ctx : Begin(c)

SpecCheck == InitCheck /\ [][NextCheck]_vars

(***************************************************************************)
(* pyproject_hash on pairs of parseable manifests.                         *)
(***************************************************************************)
Leaves == {"a", "b"}
Opt(S) == S \cup {None}
\* the table of the items whose value is given
RECURSIVE Present(_)
Present(its) ==
    IF its = <<>> THEN <<>>
    ELSE (IF Head(its).val = None THEN <<>> ELSE <<Head(its)>>) \o Present(Tail(its))

\* the [project] table, its keys in either order, or a scalar in its place
ProjectValues ==
    {Scalar("a"),
     Table(<<Item("name", Scalar("a")), Item("version", Scalar("a"))>>),
     Table(<<Item("version", Scalar("a")), Item("name", Scalar("a"))>>)}
    \cup {Table(<<Item("name", Scalar(x))>>) : x \in Leaves}
\* [tool.thx]: requirements, extras and the unrelated key module
ThxValues ==
    {Scalar("a")}
    \cup {Table(Present(<<Item("requirements", r), Item("extras", e), Item("module", m)>>)) :
            r \in Opt({Scalar(x) : x \in Leaves}), e \in Opt({Scalar("a")}),
            m \in Opt({Scalar("a")})}
ToolValues ==
    {Scalar("a")} \cup {Table(Present(<<Item("thx", x)>>)) : x \in Opt(ThxValues)}
\* the documents: the selected sections, and the unrelated key name
Manifests ==
    {Toml(Table(Present(<<Item("build-system", b), Item("project", p),
                          Item("tool", t), Item("name", n)>>))) :
        b \in Opt({Scalar("a")}), p \in Opt(ProjectValues), t \in Opt(ToolValues),
        n \in Opt({Scalar("a")})}

InitHash ==
    /\ clock = 0
    /\ manifest \in Manifests
    /\ reqs = [i \in ReqIx |-> Absent]
    /\ explicit = FALSE
    /\ live = FALSE
    /\ contexts = {}
    /\ timestamp = [c \in Ctx |-> Absent]
    /\ hashfile = [c \in Ctx |-> NoHash]
    /\ runsLeft = 0
    /\ NoCall

\* pyproject_hash of the manifest and of any other manifest
HashBoth ==
    /\ digests = <<>>
    /\ \E m \in Manifests :
        /\ other' = m
        /\ digests' = <<pyproject_hash(manifest), pyproject_hash(m)>>
    /\ UNCHANGED << files, explicit, live, contexts, runsLeft, status, pc, nu,
                    invoked, ran, emitted, queue, excq, pending, stream, written,
                    prevReady, changed, resolver >>

SpecHash == InitHash /\ [][HashBoth]_vars

(***************************************************************************)
(* resolve_contexts on every config, filter and search path.               *)
(***************************************************************************)
\* the declared versions: lists without repetition
RECURSIVE Lists(_)
Lists(n) ==
    IF n = 0 THEN {<<>>}
    ELSE LET shorter == Lists(n - 1) IN
         shorter \cup {Append(l, v) : l \in shorter, v \in Specifiers}
Distinct(l) == \A i, j \in 1..Len(l) : l[i] = l[j] => i = j
Declared == {l \in Lists(MaxVersions) : Distinct(l)}

InitResolve ==
    /\ clock = 0
    /\ manifest = Toml(DocA)
    /\ reqs = [i \in ReqIx |-> Absent]
    /\ explicit = FALSE
    /\ live = FALSE
    /\ timestamp = [c \in Ctx |-> Absent]
    /\ hashfile = [c \in Ctx |-> NoHash]
    /\ Idle
    /\ contexts = {}
    /\ runsLeft = 0
    /\ versions \in Declared
    /\ python \in {NoVersion} \cup Specifiers
    /\ options_live \in BOOLEAN
    /\ \E onpath \in [Names -> Binary] :
        binaries = [p \in Paths |-> IF p.dir = OnPath THEN onpath[p.name]
                                    ELSE InVenvs[p]]
    /\ NoLookup

SpecResolve == InitResolve /\ [][resolve_contexts]_vars

(***************************************************************************)
(* resolve_contexts and a builder of prepare_contexts in one process,      *)
(* sharing the memo table.  The config declares 3.9 and 3.10; the context  *)
(* built is the one resolve_contexts returns for 3.9 when python3.9 is     *)
(* 3.9.1.                                                                  *)
(***************************************************************************)
InitMemo ==
    /\ clock = 0
    /\ manifest = Toml(DocA)
    /\ reqs = [i \in ReqIx |-> IF i = 1 THEN File(0) ELSE Absent]
    /\ explicit = FALSE
    /\ live \in BOOLEAN
    /\ timestamp = [c \in Ctx |-> Absent]
    /\ hashfile = [c \in Ctx |-> NoHash]
    /\ Idle
    /\ contexts = {1}
    /\ runsLeft = 1
    /\ versions = << <<3, 9>>, <<3, 10>> >>
    /\ python = NoVersion
    /\ options_live = live
    /\ \E p39 \in {Undetectable, Reports(ContextVenv[1])},
          p310 \in {NotFound, Reports(ContextVenv[2])},
          v1 \in {NotFound, Undetectable, Reports(ContextVenv[1])} :
        binaries = [p \in Paths |->
            IF p = ContextPath[1] THEN p39
            ELSE IF p = ContextPath[2] THEN p310
            ELSE IF p.dir = OnPath THEN NotFound
            ELSE IF p.dir = ContextVenv[1] THEN v1
            ELSE Reports(p.dir)]
    /\ NoLookup

NextMemo == Next \/ resolve_contexts

SpecMemo == InitMemo /\ [][NextMemo]_vars

(***************************************************************************)
(* The claims.                                                             *)
(***************************************************************************)
BothMarkers(c) == timestamp[c].exists /\ hashfile[c].exists
NoNewerRequirement(c) ==
    \A i \in ReqIx : reqs[i].exists => reqs[i].mtime <= timestamp[c].mtime
StoredHashIsFresh(c) == hashfile[c].text = pyproject_hash(manifest)

\* C1 as amended: needs_update returns False exactly when no access to the
\* files made by the check fails, both markers exist, no existing
\* requirements file is newer than the timestamp marker and the stored hash
\* is the hash of the manifest; in every other case it returns True.
C1_NeedsUpdateIff ==
    \A c \in contexts :
        nu[c].called =>
            (nu[c].value = FALSE
                <=> /\ ~nu[c].fails
                    /\ BothMarkers(c)
                    /\ NoNewerRequirement(c)
                    /\ StoredHashIsFresh(c))

\* C1 as claimed: False exactly when the three conditions hold, for every
\* state of the files.
C1_Original ==
    \A c \in contexts :
        nu[c].called =>
            (nu[c].value = FALSE
                <=> /\ BothMarkers(c)
                    /\ NoNewerRequirement(c)
                    /\ StoredHashIsFresh(c))

\* needs_update answered False with both requirements files present
C1_Witness ==
    /\ nu[1].called /\ nu[1].value = FALSE
    /\ \A i \in ReqIx : reqs[i].exists
    /\ manifest = Toml(DocA)

\* C2: needs_update never raises, and returns True whenever a marker is
\* absent, whatever the other files are, and whenever an access fails.
C2_MissingOrFailingIsStale ==
    \A c \in contexts :
        nu[c].called =>
            /\ ~nu[c].raises
            /\ (~timestamp[c].exists \/ ~hashfile[c].exists \/ nu[c].fails)
                    => nu[c].value = TRUE

\* an access fails in a check that would else have answered False
C2_Witness ==
    /\ nu[1].called /\ nu[1].fails /\ nu[1].value = TRUE /\ ~nu[1].raises
    /\ BothMarkers(1) /\ NoNewerRequirement(1) /\ StoredHashIsFresh(1)

\* the selected sections, as the claim names them
SelectedSections ==
    { <<"build-system">>, <<"project">>, <<"tool", "thx", "requirements">>,
      <<"tool", "thx", "extras">> }
\* two values are the same mapping, whatever the order of their keys
RECURSIVE SameValue(_, _)
SameValue(x, y) ==
    /\ x.t = y.t
    /\ x.v = y.v
    /\ {x.items[i].k : i \in 1..Len(x.items)} = {y.items[i].k : i \in 1..Len(y.items)}
    /\ \A i \in 1..Len(x.items) :
            SameValue(x.items[i].val, GetKey(y, x.items[i].k))
Agree(m1, m2) ==
    \A path \in SelectedSections : SameValue(Walk(m1.data, path), Walk(m2.data, path))

\* C10: two parseable manifests have the same digest exactly when they agree
\* on the selected sections: other keys do not count, and any key or value
\* of a selected section does.
C10_DigestOfSelectedSections ==
    digests # <<>> => (digests[1] = digests[2] <=> Agree(manifest, other))

\* two manifests that agree on the selected sections and differ elsewhere, in
\* the order of the keys of [project] too
C10_Witness ==
    /\ digests # <<>> /\ digests[1] = digests[2]
    /\ manifest # other
    /\ Walk(manifest.data, <<"project">>) # Walk(other.data, <<"project">>)
    /\ Walk(manifest.data, <<"name">>) # Walk(other.data, <<"name">>)
    /\ Walk(manifest.data, <<"tool", "thx", "extras">>) # None

\* the builder started no step and yielded the ready event alone
Reused(c) ==
    /\ invoked[c] = {}
    /\ emitted[c] = <<"ready">>
    /\ status = "complete" => stream = <<Event(c, "ready")>>

\* C3 as amended: a builder that ended with the ready event and runs again,
\* the manifest and the requirements files unchanged since it found the
\* environment up to date or wrote its timestamp marker, and no access of the
\* second check to the files failing, starts no step and yields the ready
\* event and nothing else.
C3_SecondRunReuses ==
    \A c \in contexts :
        (nu[c].called /\ nu[c].sameMark /\ ~nu[c].fails) => Reused(c)

\* C3 as claimed: the manifest and the requirements files unchanged between
\* the two runs.
C3_Original ==
    \A c \in contexts : (nu[c].called /\ nu[c].same) => Reused(c)

\* the second call, after a first that built the environment, ends with the
\* ready event alone
C3_Witness ==
    /\ runsLeft = MaxRuns - 2
    /\ nu[1].called /\ nu[1].sameMark /\ ~nu[1].fails
    /\ hashfile[1].exists /\ hashfile[1].text # EmptyDigest
    /\ reqs[1].exists
    /\ status = "complete" /\ stream = <<Event(1, "ready")>>

\* the events of a context in a sequence of events
RECURSIVE EventsOf(_, _)
EventsOf(events, c) ==
    IF events = <<>> THEN <<>>
    ELSE (IF Head(events)[1] = c THEN <<Head(events)[2]>> ELSE <<>>)
         \o EventsOf(Tail(events), c)
TerminalEvents(kinds) ==
    Cardinality({i \in 1..Len(kinds) : kinds[i] \in {"ready", "error"}})
StreamEnded == status \in {"complete", "raised"}

\* C4: when a command fails for a context, the stream that has ended holds
\* the error event of that context, one terminal event of every other
\* context, and every event any builder yielded, once.
C4_NoEventLost ==
    (StreamEnded /\ \E c \in contexts : pc[c] = "error") =>
        \A c \in contexts :
            /\ EventsOf(stream, c) = emitted[c]
            /\ TerminalEvents(EventsOf(stream, c)) = 1
            /\ pc[c] = "error" => "error" = EventsOf(stream, c)[Len(EventsOf(stream, c))]

\* C5: the stream ends only by completing, after every builder has yielded
\* its terminal event, and no builder is cancelled.
C5_CompletesAfterEveryBuilder ==
    /\ status # "raised"
    /\ StreamEnded => \A c \in contexts : TerminalEvents(emitted[c]) = 1
    /\ \A c \in contexts : pc[c] # "cancelled"

\* C6: no failure inside a build leaves prepare_contexts as an exception:
\* every builder that fails has yielded an event for it.
C6_NoExceptionLeaves ==
    /\ status # "raised"
    /\ \A c \in contexts : pc[c] # "raised"

\* C7: a marker is written in a call only after the creation, the upgrade,
\* the requirements install (when there are requirements files) and the
\* project install succeeded in it; a builder that ended with the error event
\* wrote none.
C7_MarkersAfterAllSteps ==
    \A c \in contexts :
        /\ written[c] # {} =>
            /\ {"create", "upgrade", "project"} \subseteq ran[c]
            /\ project_requirements # <<>> => "reqs" \in ran[c]
        /\ pc[c] = "error" => written[c] = {}

\* one builder wrote both markers after the requirements install while the
\* other ended with the error event
C7_Witness ==
    /\ written[1] = {"timestamp", "hash"} /\ "reqs" \in ran[1]
    /\ pc[2] = "error" /\ "project" \in invoked[2]

\* C8: once the timestamp marker is written and the hash marker is not (the
\* build may stop there), needs_update returns True.
C8_PartialPairIsStale ==
    \A c \in contexts :
        written[c] = {"timestamp"} => needs_update(c, FALSE).value = TRUE

\* C9: with a manifest that cannot be parsed, pyproject_hash is the empty
\* digest and needs_update returns True whatever markers are stored.
C9_UnparsableForcesRebuild ==
    manifest = Invalid =>
        /\ pyproject_hash(manifest) = EmptyDigest
        /\ \A c \in contexts : needs_update(c, FALSE).value = TRUE

\* an interpreter on the search path, under a name probed for the version,
\* whose detected version matches it
Candidates(version) ==
    {i \in 1..3 :
        LET b == binaries[PathOf(OnPath, binary_names(version)[i])] IN
        b.found /\ b.version # NoVersion /\ Matches(b.version, version)}
HasInterpreter(version) == Candidates(version) # {}
ContextFor(version) ==
    \E i \in 1..Len(resolved.contexts) :
        Matches(resolved.contexts[i].python_version, version)
NonLive == resolved.called /\ ~options_live /\ versions # <<>>
\* prepare_contexts was given the list resolve_contexts returned
GivenResolved ==
    /\ resolved.given
    /\ contexts = 1..Len(resolved.contexts)
    /\ \A c \in contexts :
        resolved.contexts[c]
            = Context(ContextVenv[c], ContextPath[c], venv_path(ContextVenv[c]), FALSE)

\* C11: in non-live mode, when a declared version has no matching interpreter,
\* resolve_contexts returns a context for exactly the declared versions that
\* have one; prepare_contexts on a list of one context so resolved yields
\* events of that context only, one of them terminal.
C11_MissingVersionIsSkipped ==
    (NonLive /\ \E i \in 1..Len(versions) : ~HasInterpreter(versions[i])) =>
        /\ \A i \in 1..Len(versions) :
                ContextFor(versions[i]) <=> HasInterpreter(versions[i])
        /\ (GivenResolved /\ Len(resolved.contexts) = 1 /\ StreamEnded) =>
                /\ \A i \in 1..Len(stream) : stream[i][1] = 1
                /\ TerminalEvents(EventsOf(stream, 1)) = 1

\* C12: no two contexts resolve_contexts returns have the same environment
\* directory.
C12_DirectoriesAreDistinct ==
    resolved.called =>
        \A i, j \in 1..Len(resolved.contexts) :
            resolved.contexts[i].venv = resolved.contexts[j].venv => i = j

\* C13: the memo entry of a path is written at most once, by the one
\* detection run for the path, and never changes afterwards.
C13_MemoWrittenOnce ==
    /\ [](\A p \in Paths :
            /\ detections[p] <= 1
            /\ PYTHON_VERSIONS[p].set <=> detections[p] = 1)
    /\ [][\A p \in Paths :
            PYTHON_VERSIONS[p].set => PYTHON_VERSIONS'[p] = PYTHON_VERSIONS[p]]_vars

\* resolve_contexts and the builder both asked for python3.9, detected once
C13_Witness ==
    /\ resolved.called
    /\ "create" \in ran[1]
    /\ ~binaries[VenvPython(ContextVenv[1])].found
    /\ detections[ContextPath[1]] = 1
    /\ runtime[1].path = ContextPath[1]

\* C17: find_runtime returns a path and a version or neither, on the search
\* path and in the environment directory of a context alike.
C17_PathAndVersionOrNeither ==
    \A c \in contexts : \A venv \in {NoVersion, ContextVenv[c]} :
        "create" \in ran[c] =>
            LET f == find_runtime(Tables, runtime[c].version, venv) IN
            f.path = NoPath <=> f.version = NoVersion

\* the first probed name whose binary is found, detected and matching
FirstMatch(version) ==
    LET i == CHOOSE i \in Candidates(version) : \A k \in Candidates(version) : i <= k
        path == PathOf(OnPath, binary_names(version)[i])
    IN  Context(binaries[path].version, path, venv_path(binaries[path].version), FALSE)

\* C18: in non-live mode the contexts returned are, in the order of the
\* declared versions, contexts of declared versions: each has the path and
\* version of the first probed binary whose detected version matches the
\* declared version, and its version matches the filter if one is given.
C18_DeclaredOrder ==
    NonLive =>
        LET ctxs == resolved.contexts IN
        \E from \in [1..Len(ctxs) -> 1..Len(versions)] :
            /\ \A i, j \in 1..Len(ctxs) : i < j => from[i] < from[j]
            /\ \A i \in 1..Len(ctxs) :
                /\ HasInterpreter(versions[from[i]])
                /\ ctxs[i] = FirstMatch(versions[from[i]])
                /\ Matches(ctxs[i].python_version, versions[from[i]])
                /\ python # NoVersion => Matches(ctxs[i].python_version, python)

\* the second declared version alone is resolved, by the second name probed
C18_Witness ==
    /\ NonLive
    /\ Len(versions) = 2 /\ Len(resolved.contexts) = 1
    /\ HasInterpreter(versions[1]) /\ HasInterpreter(versions[2])
    /\ python # NoVersion
    /\ resolved.contexts[1].python_path = PathOf(OnPath, <<"python", 3>>)
    /\ ~Matches(resolved.contexts[1].python_version, versions[1])

IsPrefix(a, b) == Len(a) <= Len(b) /\ a = SubSeq(b, 1, Len(a))
\* the events of a rebuild, in the order of lines 240-301
StepOrder ==
    <<"creating virtualenv", "upgrading pip">>
        \o (IF project_requirements # <<>> THEN <<"installing requirements">> ELSE <<>>)
        \o <<"installing project", "ready">>
\* the events before the error event, if there is one
Progress(kinds) ==
    IF kinds # <<>> /\ kinds[Len(kinds)] = "error"
    THEN SubSeq(kinds, 1, Len(kinds) - 1) ELSE kinds

\* C14: the events of a context are in the stream in the order the builder
\* yielded them, which on the rebuild path is creating virtualenv, upgrading
\* pip, installing requirements (when there are requirements files),
\* installing project, ready; a step starts only after the step before it
\* has succeeded.
C14_StepOrderKept ==
    \A c \in contexts :
        /\ IsPrefix(EventsOf(stream, c), emitted[c])
        /\ \/ emitted[c] = <<"ready">> /\ invoked[c] = {}
           \/ IsPrefix(Progress(emitted[c]), StepOrder)
        /\ "upgrade" \in invoked[c] => "create" \in ran[c]
        /\ "reqs" \in invoked[c] => "upgrade" \in ran[c]
        /\ "project" \in invoked[c] =>
                /\ "upgrade" \in ran[c]
                /\ project_requirements # <<>> => "reqs" \in ran[c]
        /\ written[c] # {} => "project" \in ran[c]

\* two rebuilds with requirements, complete, their events interleaved
C14_Witness ==
    /\ status = "complete" /\ contexts = {1, 2}
    /\ EventsOf(stream, 1) = StepOrder /\ EventsOf(stream, 2) = StepOrder
    /\ Len(StepOrder) = 5
    /\ stream[1][1] = 2 /\ stream[2][1] = 1 /\ stream[3][1] = 2
    /\ stream[Len(stream)][1] = 1

\* C15: the builders run concurrently: a builder that waits for a command or
\* is about to write a marker can take its next step whatever the builders of
\* the contexts listed before it are doing, so the ready event of a context
\* listed later can be in the stream before the terminal event of one listed
\* earlier.
C15_NoBuilderWaits ==
    \A c \in contexts :
        (status = "running" /\ pc[c] \notin Terminal \cup {"start"})
            => ENABLED Builder(c)

\* the ready event of the second context is in the stream while the first,
\* whose creating event came first, is still creating its environment
C15_Witness ==
    /\ contexts = {1, 2} /\ status = "running"
    /\ pc[1] = "create" /\ emitted[1] = <<"creating virtualenv">>
    /\ Len(stream) >= 2
    /\ stream[1] = Event(1, "creating virtualenv")
    /\ stream[Len(stream)] = Event(2, "ready")
    /\ "hash" \in written[2]

\* C16: a builder that has ended yielded exactly one terminal event, its
\* last event; it is the error event exactly when a command it started did
\* not succeed, and then nothing was started or written after that command;
\* a builder that has not ended has yielded no terminal event.
C16_OneTerminalEventLast ==
    \A c \in contexts :
        /\ pc[c] \notin Terminal => TerminalEvents(emitted[c]) = 0
        /\ pc[c] \in {"ready", "error", "raised"} =>
            /\ TerminalEvents(emitted[c]) = 1
            /\ emitted[c][Len(emitted[c])] \in {"ready", "error"}
            /\ emitted[c][Len(emitted[c])] = "error" <=> invoked[c] # ran[c]
            /\ invoked[c] # ran[c] =>
                /\ Cardinality(invoked[c] \ ran[c]) = 1
                /\ written[c] = {}

\* C19: once a rebuild has ended with the error event, needs_update returns
\* True, whatever is done to the manifest and the requirements files after
\* it.
C19_FailedRebuildStaysStale ==
    \A c \in contexts :
        pc[c] = "error" => needs_update(c, FALSE).value = TRUE

\* C20: a rebuild that ends with the ready event after the manifest or a
\* requirements file was changed between the return of its install commands
\* and its marker writes leaves an environment for which needs_update
\* returns True.
C20_InstalledFromCurrentFiles ==
    [][\A c \in contexts :
        (pc[c] = "hash" /\ pc'[c] = "ready"
                /\ (changed[c].run \/ changed[c].used # manifest))
            => (needs_update(c, FALSE).value)' = TRUE]_vars

====
